---- MODULE Spec2Model ----
(***************************************************************************)
(* Model of HomeScreen (src/app/(tabs)/index.tsx): the React state of the  *)
(* screen, the async handlers pickImage and sendToApi, and the two pure    *)
(* display transforms confidencePct and prettyLabel.                       *)
(*                                                                         *)
(* Every invocation of pickImage is a small process: it suspends at the    *)
(* permission request (line 65), at the picker (line 72) and at the        *)
(* network call (lines 105-114).  The code between two suspension points   *)
(* runs in one event-loop turn, so it is one action here; React applies    *)
(* the setState calls of a turn together and re-renders, which recomputes  *)
(* the memoized confidencePct and the label text.                          *)
(*                                                                         *)
(* JavaScript values are records tagged with their type:                   *)
(*   [t |-> "undef"], [t |-> "null"], [t |-> "nan"],                       *)
(*   [t |-> "num", v |-> k]   the number k / Scale,                        *)
(*   [t |-> "str", v |-> s]   the string whose characters are the          *)
(*                            sequence s,                                  *)
(*   [t |-> "lit", s |-> x]   a string literal of the source text.         *)
(***************************************************************************)
EXTENDS Integers, Sequences, FiniteSets, TLC

\* ------------------------------------------------------------------ bounds
\* Number of pickImage invocations (presses of "Pick an image"/"Replace").
MaxPicks == 2
\* Numbers are integers in units of 1/Scale.
Scale == 4
\* How far the confidence inputs reach beyond 100 (in units of 1/Scale).
MaxOver == 6
\* How far the confidence inputs reach below 0 (in units of 1/Scale).
MaxUnder == 6
\* Longest label the server sends in the label study.
MaxLen == 3

\* ------------------------------------------------------------- JS values
Undef == [t |-> "undef"]
Null == [t |-> "null"]
NaN == [t |-> "nan"]
Num(k) == [t |-> "num", v |-> k]
Str(s) == [t |-> "str", v |-> s]
Lit(x) == [t |-> "lit", s |-> x]

\* x ?? y tests for null and undefined only.
Nullish(x) == x.t \in {"undef", "null"}

\* JavaScript truthiness, as used by ||, ! and the conditional operator.
Falsy(x) ==
    \/ Nullish(x)
    \/ x.t = "nan"
    \/ (x.t = "num" /\ x.v = 0)
    \/ (x.t = "str" /\ x.v = <<>>)

\* typeof x === "number" (NaN is a number).
IsNumber(x) == x.t \in {"num", "nan"}

\* ------------------------------------------------------ pure: confidencePct
Min(a, b) == IF a < b THEN a ELSE b
Max(a, b) == IF a > b THEN a ELSE b

\* A plausible slip: the clamp of line 46 left out.
confidencePct_NoClamp(c) ==
    IF c.t = "null" \/ c.t = "nan" THEN Null
    ELSE Num(IF c.v > Scale THEN c.v ELSE c.v * 100)

\* Lines 43-47.  confidence > 1 is c.v > Scale in scaled units.
confidencePct(c) ==
    IF c.t = "null" \/ c.t = "nan" THEN Null
    ELSE LET x == IF c.v > Scale THEN c.v ELSE c.v * 100
         IN  Num(Max(0, Min(100 * Scale, x)))

\* -------------------------------------------------------- pure: prettyLabel
Alphabet == {"a", "A", "7", "_", " ", "-"}

\* String.prototype.toUpperCase on one character of the alphabet.
ToUpper(ch) == IF ch = "a" THEN "A" ELSE ch

\* The regular expression class \w: [A-Za-z0-9_].
IsWord(ch) == ch \in {"a", "A", "7", "_"}

\* s.replaceAll("_", " ")
ReplaceUnderscores(s) ==
    [j \in 1..Len(s) |-> IF s[j] = "_" THEN " " ELSE s[j]]

\* s.replace(/\b\w/g, c => c.toUpperCase()): a match is a word character
\* that starts the string or follows a non-word character.
CapitalizeWords(s) ==
    [j \in 1..Len(s) |->
        IF IsWord(s[j]) /\ (j = 1 \/ ~IsWord(s[j - 1]))
        THEN ToUpper(s[j]) ELSE s[j]]

\* A plausible slip: the two steps of line 57 in the other order.
prettyLabel_Swapped(s) == ReplaceUnderscores(CapitalizeWords(s))

\* Lines 56-57.
prettyLabel(s) == CapitalizeWords(ReplaceUnderscores(s))


\* ------------------------------------------------------------------ state
VARIABLES
    pickedUri,      \* line 25: 0 is null, i > 0 the uri of the asset of pick i
    loading,        \* line 28
    prediction,     \* line 31: a JS value
    confidence,     \* line 34: a JS value
    gradcamBase64,  \* line 37: a JS value
    pct,            \* lines 43-47: the memoized confidencePct
    labelText,      \* line 300: the text of the label badge
    pc,             \* position of each pickImage invocation
    nPosts,         \* number of fetch calls made so far (line 105)
    alert,          \* what Alert.alert was called with in the last step
    event,          \* history: the last step and its input
    shownBy,        \* history: the invocation whose response set the result
    nPicked         \* history: number of picks that returned base64 data

view == <<pickedUri, loading, prediction, confidence, gradcamBase64>>
vars == <<pickedUri, loading, prediction, confidence, gradcamBase64, pct,
          labelText, pc, nPosts, alert, event, shownBy, nPicked>>

Picks == 1..MaxPicks

NoAlert == [title |-> "none"]
\* Line 67.
PermissionAlert ==
    [title |-> "Permission needed", message |-> Lit("Please allow photo access.")]
\* Line 89.
MissingDataAlert ==
    [title |-> "Error", message |-> Lit("Could not read image as base64.")]
\* Lines 144-147.
NetworkAlert ==
    [title |-> "Network Error", message |-> Lit("Could not reach the server.")]
\* Line 124.
ApiAlert(msg) == [title |-> "API Error", message |-> msg]

\* ----------------------------------------------------------------- render
\* Line 300: prediction ? prettyLabel(prediction) : "-"
LabelText(p) == IF Falsy(p) THEN Lit("-") ELSE Str(prettyLabel(p.v))

\* A re-render after the state updates of a step.
Render ==
    /\ pct' = confidencePct(confidence')
    /\ labelText' = LabelText(prediction')

\* ------------------------------------------------------- server responses
\* What the awaited network call of lines 105-114 can produce: fetch rejects
\* (no response), or a response with a status and a body; the body is not
\* JSON, or it is the JSON value null, or a JSON object.
Unparseable == [t |-> "unparseable"]
Obj(p, c, g, e) ==
    [t |-> "obj", prediction |-> p, confidence |-> c,
     gradcam_png_base64 |-> g, error |-> e]

TransportFailure == [kind |-> "reject"]
Response(ok, body) == [kind |-> "response", ok |-> ok, body |-> body]

\* Line 114 throws when the body is not JSON; lines 117-119 throw when data
\* is null (property access) and when gradcam_png_base64 is neither nullish
\* nor a string (x?.slice(...) calls a method the value does not have).
Throws(r) ==
    \/ r.kind = "reject"
    \/ r.body.t = "unparseable"
    \/ r.body.t = "null"
    \/ (~Nullish(r.body.gradcam_png_base64) /\ r.body.gradcam_png_base64.t # "str")

\* Line 124: data?.error || "Server error"
ErrorMessage(data) ==
    IF Falsy(data.error) THEN Lit("Server error") ELSE data.error

\* Line 129: data.prediction ?? null
ParsePrediction(data) ==
    IF Nullish(data.prediction) THEN Null ELSE data.prediction

\* A plausible slip: setConfidence called only for a numeric confidence, so
\* that a response without one keeps the confidence on display.
ParseConfidence_Keeps(data) ==
    IF IsNumber(data.confidence) THEN data.confidence ELSE confidence

\* Line 130.
ParseConfidence(data) ==
    IF IsNumber(data.confidence) THEN data.confidence ELSE Null

\* Lines 133-140.
ParseGradcam(data) ==
    IF data.gradcam_png_base64.t = "str" /\ Len(data.gradcam_png_base64.v) > 0
    THEN data.gradcam_png_base64 ELSE Null

\* The responses of the concurrency study: every combination of an absent or
\* present label, an absent, non-numeric or numeric confidence and an
\* absent, empty, non-empty or non-string overlay; error bodies with an
\* absent, empty or non-empty error text.
Predictions == {Undef, Str(<<"a", "_", "a">>)}
Confidences == {Undef, Str(<<"h">>), Num(3)}
Gradcams == {Undef, Str(<<>>), Str(<<"P">>), Num(7)}
Errors == {Str(<<>>), Str(<<"e">>)}

Bodies ==
    {Unparseable, Null}
    \cup {Obj(p, c, g, Undef) : p \in Predictions, c \in Confidences, g \in Gradcams}
    \cup {Obj(Undef, Undef, g, e) : g \in {Undef, Num(7)}, e \in Errors}

Responses ==
    {TransportFailure} \cup {Response(ok, b) : ok \in BOOLEAN, b \in Bodies}

\* ------------------------------------------------------------------- Init
\* Lines 25-37: the state of a freshly mounted screen.
Init ==
    /\ pickedUri = 0
    /\ loading = FALSE
    /\ prediction = Null
    /\ confidence = Null
    /\ gradcamBase64 = Null
    /\ pct = confidencePct(Null)
    /\ labelText = LabelText(Null)
    /\ pc = [i \in Picks |-> "idle"]
    /\ nPosts = 0
    /\ alert = NoAlert
    /\ event = [op |-> "mount"]
    /\ shownBy = 0
    /\ nPicked = 0

\* ---------------------------------------------------------------- pickImage
\* A plausible slip: the buttons disabled while a request is loading
\* (disabled={loading} on the Pressables of lines 199 and 229).
Press_DisabledWhileLoading(i) ==
    /\ ~loading
    /\ pc[i] = "idle"
    /\ (IF i = 1 THEN TRUE ELSE pc[i - 1] # "idle")
    /\ pc' = [pc EXCEPT ![i] = "perm"]
    /\ alert' = NoAlert
    /\ event' = [op |-> "press", id |-> i]
    /\ UNCHANGED <<view, nPosts, shownBy, nPicked>>
    /\ Render

\* Lines 63-65: onPress starts an invocation, which awaits the permission
\* request.  Invocations are numbered in the order of the presses.
Press(i) ==
    /\ pc[i] = "idle"
    /\ (IF i = 1 THEN TRUE ELSE pc[i - 1] # "idle")
    /\ pc' = [pc EXCEPT ![i] = "perm"]
    /\ alert' = NoAlert
    /\ event' = [op |-> "press", id |-> i]
    /\ UNCHANGED <<view, nPosts, shownBy, nPicked>>
    /\ Render

\* A plausible slip: the return of line 68 left out, so the picker is
\* launched after the notification.
PermissionDenied_NoReturn(i) ==
    /\ pc[i] = "perm"
    /\ alert' = PermissionAlert
    /\ pc' = [pc EXCEPT ![i] = "picker"]
    /\ event' = [op |-> "denied", id |-> i]
    /\ UNCHANGED <<view, nPosts, shownBy, nPicked>>
    /\ Render

\* Lines 66-69: permission refused.
PermissionDenied(i) ==
    /\ pc[i] = "perm"
    /\ alert' = PermissionAlert
    /\ pc' = [pc EXCEPT ![i] = "done"]
    /\ event' = [op |-> "denied", id |-> i]
    /\ UNCHANGED <<view, nPosts, shownBy, nPicked>>
    /\ Render

\* Lines 66-76: permission granted, the picker is launched and awaited.
PermissionGranted(i) ==
    /\ pc[i] = "perm"
    /\ pc' = [pc EXCEPT ![i] = "picker"]
    /\ alert' = NoAlert
    /\ event' = [op |-> "granted", id |-> i]
    /\ UNCHANGED <<view, nPosts, shownBy, nPicked>>
    /\ Render

\* A plausible slip: the result fields cleared before the test of line 78.
PickerCancelled_Clears(i) ==
    /\ pc[i] = "picker"
    /\ pc' = [pc EXCEPT ![i] = "done"]
    /\ prediction' = Null
    /\ confidence' = Null
    /\ gradcamBase64' = Null
    /\ shownBy' = 0
    /\ alert' = NoAlert
    /\ event' = [op |-> "cancelled", id |-> i]
    /\ UNCHANGED <<pickedUri, loading, nPosts, nPicked>>
    /\ Render

\* Line 78: the picker was cancelled.
PickerCancelled(i) ==
    /\ pc[i] = "picker"
    /\ pc' = [pc EXCEPT ![i] = "done"]
    /\ alert' = NoAlert
    /\ event' = [op |-> "cancelled", id |-> i]
    /\ UNCHANGED <<view, nPosts, shownBy, nPicked>>
    /\ Render

\* A plausible slip: setPrediction(null) of line 84 left out.
ResetResults_KeepsPrediction ==
    [prediction |-> prediction, confidence |-> Null, gradcamBase64 |-> Null]

\* Lines 84-86.
ResetResults ==
    [prediction |-> Null, confidence |-> Null, gradcamBase64 |-> Null]

\* A plausible slip: the return of line 90 left out, so sendToApi is called
\* for an asset without data.
Dispatches_NoReturn(hasBase64) == TRUE

\* Lines 88-93: sendToApi is called only for an asset with base64 data.
Dispatches(hasBase64) == hasBase64

\* Lines 80-93 and 100-112: the picker returned an asset.  The asset's uri is
\* fresh for every pick (the picker copies the image to a new cache file).
\* With data, sendToApi runs up to its await in the same turn: it sets
\* loading and calls fetch.
PickerReturns(i, hasBase64) ==
    /\ pc[i] = "picker"
    /\ pickedUri' = i
    /\ prediction' = ResetResults.prediction
    /\ confidence' = ResetResults.confidence
    /\ gradcamBase64' = ResetResults.gradcamBase64
    /\ shownBy' = 0
    /\ nPicked' = IF hasBase64 THEN nPicked + 1 ELSE nPicked
    /\ alert' = IF hasBase64 THEN NoAlert ELSE MissingDataAlert
    /\ IF Dispatches(hasBase64)
       THEN /\ loading' = TRUE
            /\ nPosts' = nPosts + 1
            /\ pc' = [pc EXCEPT ![i] = "fetch"]
       ELSE /\ pc' = [pc EXCEPT ![i] = "done"]
            /\ UNCHANGED <<loading, nPosts>>
    /\ event' = [op |-> "picked", id |-> i, base64 |-> hasBase64,
                 had |-> (prediction # Null \/ confidence # Null
                            \/ gradcamBase64 # Null)]
    /\ Render

\* ---------------------------------------------------------------- sendToApi
\* A plausible slip: setLoading(false) as the last statement of the try
\* block instead of in finally, so that only a committed 2xx response
\* resets loading.
Resolve_NoFinally(i, r) ==
    /\ pc[i] = "fetch"
    /\ pc' = [pc EXCEPT ![i] = "done"]
    /\ event' = [op |-> "resolved", id |-> i, resp |-> r]
    /\ UNCHANGED <<pickedUri, nPosts, nPicked>>
    /\ IF Throws(r)
       THEN /\ alert' = NetworkAlert
            /\ UNCHANGED <<loading, prediction, confidence, gradcamBase64, shownBy>>
       ELSE IF ~r.ok
       THEN /\ alert' = ApiAlert(ErrorMessage(r.body))
            /\ UNCHANGED <<loading, prediction, confidence, gradcamBase64, shownBy>>
       ELSE /\ alert' = NoAlert
            /\ loading' = FALSE
            /\ prediction' = ParsePrediction(r.body)
            /\ confidence' = ParseConfidence(r.body)
            /\ gradcamBase64' = ParseGradcam(r.body)
            /\ shownBy' = i
    /\ Render

\* A plausible slip: the failure paths clear the result fields.
Resolve_FailureClears(i, r) ==
    /\ pc[i] = "fetch"
    /\ pc' = [pc EXCEPT ![i] = "done"]
    /\ loading' = FALSE
    /\ event' = [op |-> "resolved", id |-> i, resp |-> r]
    /\ UNCHANGED <<pickedUri, nPosts, nPicked>>
    /\ IF Throws(r) \/ ~r.ok
       THEN /\ alert' = IF Throws(r) THEN NetworkAlert
                        ELSE ApiAlert(ErrorMessage(r.body))
            /\ prediction' = Null
            /\ confidence' = Null
            /\ gradcamBase64' = Null
            /\ shownBy' = 0
       ELSE /\ alert' = NoAlert
            /\ prediction' = ParsePrediction(r.body)
            /\ confidence' = ParseConfidence(r.body)
            /\ gradcamBase64' = ParseGradcam(r.body)
            /\ shownBy' = i
    /\ Render

\* A plausible slip: the failure paths reset the screen to its initial
\* state, image included.
Resolve_FailureResets(i, r) ==
    /\ pc[i] = "fetch"
    /\ pc' = [pc EXCEPT ![i] = "done"]
    /\ loading' = FALSE
    /\ event' = [op |-> "resolved", id |-> i, resp |-> r]
    /\ UNCHANGED <<nPosts, nPicked>>
    /\ IF Throws(r) \/ ~r.ok
       THEN /\ alert' = IF Throws(r) THEN NetworkAlert
                        ELSE ApiAlert(ErrorMessage(r.body))
            /\ pickedUri' = 0
            /\ UNCHANGED <<prediction, confidence, gradcamBase64, shownBy>>
       ELSE /\ alert' = NoAlert
            /\ pickedUri' = pickedUri
            /\ prediction' = ParsePrediction(r.body)
            /\ confidence' = ParseConfidence(r.body)
            /\ gradcamBase64' = ParseGradcam(r.body)
            /\ shownBy' = i
    /\ Render

\* Lines 105-150: the network call of invocation i resolves with r.  No
\* state is written between the response and the end of res.json(), so the
\* two awaits are one step.  finally (line 149) runs on every path.
Resolve(i, r) ==
    /\ pc[i] = "fetch"
    /\ pc' = [pc EXCEPT ![i] = "done"]
    /\ loading' = FALSE
    /\ event' = [op |-> "resolved", id |-> i, resp |-> r]
    /\ UNCHANGED <<pickedUri, nPosts, nPicked>>
    /\ IF Throws(r)
       THEN /\ alert' = NetworkAlert
            /\ UNCHANGED <<prediction, confidence, gradcamBase64, shownBy>>
       ELSE IF ~r.ok
       THEN /\ alert' = ApiAlert(ErrorMessage(r.body))
            /\ UNCHANGED <<prediction, confidence, gradcamBase64, shownBy>>
       ELSE /\ alert' = NoAlert
            /\ prediction' = ParsePrediction(r.body)
            /\ confidence' = ParseConfidence(r.body)
            /\ gradcamBase64' = ParseGradcam(r.body)
            /\ shownBy' = i
    /\ Render

\* ------------------------------------------------------------------- Spec
Next ==
    \/ \E i \in Picks : Press(i)
    \/ \E i \in Picks : PermissionDenied(i)
    \/ \E i \in Picks : PermissionGranted(i)
    \/ \E i \in Picks : PickerCancelled(i)
    \/ \E i \in Picks, b \in BOOLEAN : PickerReturns(i, b)
    \/ \E i \in Picks, r \in Responses : Resolve(i, r)

Spec == Init /\ [][Next]_vars

\* The specification under the hypothesis that every dispatched request
\* eventually resolves (the network answers or fails; nothing in the code
\* times a request out).
SpecLive == Spec /\ WF_vars(\E i \in Picks, r \in Responses : Resolve(i, r))

\* The view state the screen can be told to be in from its five fields
\* (lines 25-37 are the whole state; lines 198-257 render the pick button
\* for no image and the spinner for loading).  No field records a failure.
ViewState ==
    IF pickedUri = 0 THEN [tag |-> "Idle"]
    ELSE IF loading THEN [tag |-> "Loading"]
    ELSE IF prediction # Null \/ confidence # Null \/ gradcamBase64 # Null
    THEN [tag |-> "Result"]
    ELSE [tag |-> "ImageSelected"]

\* ------------------------------------------- studies of the pure functions
\* One pick whose request is answered by a 2xx response carrying a
\* confidence from a range that covers negative values, fractions, and
\* percentages up to and beyond 100.
ConfInputs ==
    {Undef, Null, Str(<<"h">>)}
    \cup {Num(k) : k \in (0 - MaxUnder)..(100 * Scale + MaxOver)}

PctResponses == {Response(TRUE, Obj(Undef, c, Undef, Undef)) : c \in ConfInputs}

NextPct ==
    \/ Press(1)
    \/ PermissionGranted(1)
    \/ PickerReturns(1, TRUE)
    \/ \E r \in PctResponses : Resolve(1, r)

SpecPct == Init /\ [][NextPct]_vars

\* One pick whose request is answered by a 2xx response carrying a label:
\* every string of at most MaxLen characters over the alphabet.
Labels == UNION {[1..n -> Alphabet] : n \in 0..MaxLen}

LabelResponses == {Response(TRUE, Obj(Str(x), Undef, Undef, Undef)) : x \in Labels}

NextLabel ==
    \/ Press(1)
    \/ PermissionGranted(1)
    \/ PickerReturns(1, TRUE)
    \/ \E r \in LabelResponses : Resolve(1, r)

SpecLabel == Init /\ [][NextLabel]_vars

\* ----------------------------------------------------------------- claims
ResultDisplayed == prediction # Null \/ confidence # Null \/ gradcamBase64 # Null
ResultsAbsent == prediction = Null /\ confidence = Null /\ gradcamBase64 = Null

\* C1: single-flight.  In every reachable state a displayed result was
\* produced by the request dispatched for the image now displayed: the
\* resolution of an earlier call never shows through a newer pick.
C1_SingleFlight == ResultDisplayed => shownBy = pickedUri

\* C2: a successful pick sets the new image and clears prediction,
\* confidence and gradcamBase64 in the step that dispatches its request: in
\* the state where the request is dispatched the three fields are absent,
\* whatever was displayed before.
C2_ClearedAtDispatch ==
    event.op = "picked" =>
        /\ pickedUri = event.id
        /\ ResultsAbsent
        /\ event.base64 => (pc[event.id] = "fetch" /\ loading)

\* C2 witness: a request was just dispatched by a pick that replaced an image
\* whose result was on display.
C2_Witness ==
    /\ event.op = "picked"
    /\ event.base64
    /\ event.had
    /\ pc[event.id] = "fetch"

\* C3: a cancelled picker changes none of pickedUri, loading, prediction,
\* confidence, gradcamBase64, dispatches no request and raises no
\* notification.
C3_CancelChangesNothing ==
    [][event'.op = "cancelled" =>
        (UNCHANGED <<view, nPosts>> /\ alert' = NoAlert)]_vars

\* C3 witness: the picker was cancelled while a previous result is displayed.
C3_Witness ==
    /\ event.op = "cancelled"
    /\ prediction # Null
    /\ pickedUri # 0

\* C4: a denied permission raises the permission notification, ends the
\* invocation without launching the picker (an ended invocation never takes
\* another step), dispatches no request and leaves the five state fields
\* unchanged.
C4_DeniedChangesNothing ==
    [][/\ event'.op = "denied" =>
            /\ alert' = PermissionAlert
            /\ pc'[event'.id] = "done"
            /\ UNCHANGED <<view, nPosts>>
       /\ \A i \in Picks : pc[i] = "done" => pc'[i] = "done"]_vars

\* C4 witness: permission was denied from the initial view state, which is
\* still Idle.
C4_Witness ==
    /\ event.op = "denied"
    /\ alert = PermissionAlert
    /\ pickedUri = 0
    /\ ResultsAbsent
    /\ ~loading

\* C5: a 2xx response with a JSON object is committed whichever fields it
\* carries: prediction passed through if present, confidence stored only if
\* numeric, overlay stored only if a non-empty string, each otherwise
\* absent, and no notification is raised.
C5_EveryOkResponseCommitted ==
    (/\ event.op = "resolved"
     /\ event.resp.kind = "response"
     /\ event.resp.ok
     /\ event.resp.body.t = "obj") =>
        LET d == event.resp.body IN
        /\ alert = NoAlert
        /\ prediction = (IF Nullish(d.prediction) THEN Null ELSE d.prediction)
        /\ confidence = (IF d.confidence.t = "num" THEN d.confidence ELSE Null)
        /\ gradcamBase64 =
             (IF d.gradcam_png_base64.t = "str" /\ d.gradcam_png_base64.v # <<>>
              THEN d.gradcam_png_base64 ELSE Null)

\* C6: every non-2xx response raises the server-rejection notification, with
\* the server's error text when present and non-empty and with "Server
\* error" otherwise.
C6_EveryRejectionNotified ==
    (/\ event.op = "resolved"
     /\ event.resp.kind = "response"
     /\ ~event.resp.ok) =>
        LET d == event.resp.body
            hasText == d.t = "obj" /\ d.error.t = "str" /\ d.error.v # <<>>
        IN  /\ alert.title = "API Error"
            /\ alert.message = (IF hasText THEN d.error ELSE Lit("Server error"))

\* C7: a response whose body is not JSON is surfaced as a server rejection
\* with the generic message; the network notification is raised only when
\* no response was received.
C7_UnparseableIsRejection ==
    event.op = "resolved" =>
        /\ alert = NetworkAlert => event.resp.kind = "reject"
        /\ (event.resp.kind = "response" /\ event.resp.body.t = "unparseable")
              => alert = ApiAlert(Lit("Server error"))

\* C8: no automatic retry.  In every reachable state the number of requests
\* dispatched equals the number of successful picks that carried data; in
\* particular it still does after every failed request.
C8_OnePostPerPick == nPosts = nPicked

\* C8 witness: two picks were made and a request has just failed.
C8_Witness ==
    /\ event.op = "resolved"
    /\ alert # NoAlert
    /\ nPosts = 2

\* C9: confidence normalization.  For 0 <= c <= 1 the percentage is 100*c,
\* for c > 1 it is c clamped to 100, for c < 0 it is 0; it always lies in
\* [0, 100]; an absent or NaN confidence yields absent.
C9_ConfidencePct ==
    /\ confidence = Null => pct = Null
    /\ confidencePct(NaN) = Null
    /\ confidence.t = "num" =>
        LET c == confidence.v IN
        /\ pct.t = "num"
        /\ 0 <= pct.v /\ pct.v <= 100 * Scale
        /\ (0 <= c /\ c <= Scale) => pct.v = 100 * c
        /\ c > Scale => pct.v = Min(c, 100 * Scale)
        /\ c < 0 => pct.v = 0

\* C9 witness: a confidence above 100 is displayed clamped to 100.
C9_Witness ==
    /\ confidence.t = "num"
    /\ confidence.v > 100 * Scale
    /\ pct = Num(100 * Scale)

\* C10: label formatting is idempotent, prettyLabel(prettyLabel(x)) =
\* prettyLabel(x) for every label x, the badge shows prettyLabel(x), and the
\* stored prediction stays the raw label the server sent.
C10_PrettyLabelIdempotent ==
    /\ prediction.t = "str" =>
          prettyLabel(prettyLabel(prediction.v)) = prettyLabel(prediction.v)
    /\ ~Falsy(prediction) =>
          /\ labelText = Str(prettyLabel(prediction.v))
          /\ prettyLabel(labelText.v) = labelText.v
    /\ event.op = "resolved" => prediction = event.resp.body.prediction

\* C10 witness: a raw label that formatting changes is stored unformatted
\* and shown formatted.
C10_Witness ==
    /\ prediction = Str(<<"a", "_", "a">>)
    /\ labelText = Str(<<"A", " ", "A">>)

\* C11: the screen is never stuck.  Whatever has failed, the next press of
\* the pick button is accepted (as long as the model has an invocation left
\* to start), and once every dispatched request has resolved and no pick
\* follows, loading is false for good.
C11_NeverStuck ==
    /\ []((\E i \in Picks : pc[i] = "idle") => ENABLED (\E i \in Picks : Press(i)))
    /\ <>[](~loading)

\* C11 witness: a request has just failed, loading is false again and a
\* further press is accepted.
C11_Witness ==
    /\ event.op = "resolved"
    /\ alert = NetworkAlert
    /\ ~loading
    /\ pc[MaxPicks] = "idle"
    /\ ENABLED Press(MaxPicks)

\* C12: in every reachable state, loading = true implies that at least one
\* inference request is outstanding and that prediction, confidence and
\* gradcamBase64 are all absent.
C12_LoadingMeansInFlight ==
    loading => ((\E i \in Picks : pc[i] = "fetch") /\ ResultsAbsent)

\* C12 witness: loading is true because of an earlier request while a later
\* pick (one without data) has just replaced the image.
C12_Witness ==
    /\ loading
    /\ event.op = "picked"
    /\ ~event.base64
    /\ \E i \in Picks : i # event.id /\ pc[i] = "fetch"

\* C13: loading is exited only by the resolution of the call that entered
\* it: while the most recently dispatched request (the one of the displayed
\* image) is outstanding, loading is true.
C13_LoadingUntilOwnResolution ==
    (pickedUri # 0 /\ pc[pickedUri] = "fetch") => loading

\* C14: an asset without base64 data never reaches the inference client.
\* Such a pick raises the missing-data notification, which differs from the
\* permission one, dispatches no request and leaves loading as it was; a
\* request is dispatched only by a pick with data, whose invocation reached
\* the picker, which it does only by a granted permission.
C14_NoDataNoRequest ==
    [][/\ (event'.op = "picked" /\ ~event'.base64) =>
            /\ alert' = MissingDataAlert
            /\ MissingDataAlert # PermissionAlert
            /\ nPosts' = nPosts
            /\ loading' = loading
            /\ pc'[event'.id] = "done"
       /\ nPosts' # nPosts =>
            /\ event'.op = "picked"
            /\ event'.base64
            /\ pc[event'.id] = "picker"
       /\ \A i \in Picks : (pc'[i] = "picker" /\ pc[i] # "picker") =>
            (pc[i] = "perm" /\ event' = [op |-> "granted", id |-> i])]_vars

\* C14 witness: a first pick returned an asset without data: the image is
\* shown, the missing-data notification is up, nothing is loading and no
\* request was made.
C14_Witness ==
    /\ event.op = "picked"
    /\ ~event.base64
    /\ alert = MissingDataAlert
    /\ pickedUri = event.id
    /\ ~loading
    /\ nPosts = 0

\* The failure kind of a step, told from the step's input (the taxonomy of
\* the specification): a refused permission, an asset without data, no
\* response, a non-2xx response, a 2xx response that is not JSON.
FailureKind(e) ==
    IF e.op = "denied" THEN "Denied"
    ELSE IF e.op = "picked" /\ ~e.base64 THEN "MissingData"
    ELSE IF e.op # "resolved" THEN "none"
    ELSE IF e.resp.kind = "reject" THEN "NetworkUnreachable"
    ELSE IF ~e.resp.ok THEN "ServerRejected"
    ELSE IF e.resp.body.t = "unparseable" THEN "MalformedResponse"
    ELSE "none"

\* A 2xx response carrying a JSON object.
IsSuccess(e) ==
    /\ e.op = "resolved"
    /\ e.resp.kind = "response"
    /\ e.resp.ok
    /\ e.resp.body.t = "obj"

\* C15: every failure is surfaced exactly once and distinctly: permission
\* denial, missing data, server rejection and transport failure each raise
\* the notification of their own kind; a cancelled pick and a successful
\* response raise none.
C15_DistinctNotifications ==
    /\ FailureKind(event) = "Denied" => alert.title = "Permission needed"
    /\ FailureKind(event) = "MissingData" => alert.title = "Error"
    /\ FailureKind(event) = "ServerRejected" => alert.title = "API Error"
    /\ FailureKind(event) = "NetworkUnreachable" => alert.title = "Network Error"
    /\ (event.op = "cancelled" \/ IsSuccess(event)) => alert = NoAlert

\* C16: every failure is recorded in the view state: after a missing-data,
\* server-rejection, malformed-response or transport failure the view state
\* is Failed(kind), which tells it from ImageSelected.
C16_FailureRecorded ==
    FailureKind(event) \in
        {"MissingData", "ServerRejected", "MalformedResponse", "NetworkUnreachable"}
    => ViewState = [tag |-> "Failed", kind |-> FailureKind(event)]

\* A request that failed in one of the three ways of C17: no response, a
\* non-2xx response, a response whose body is not JSON.
IsFailedRequest(e) ==
    /\ e.op = "resolved"
    /\ \/ e.resp.kind = "reject"
       \/ ~e.resp.ok
       \/ e.resp.body.t = "unparseable"

\* C17: a failed request changes nothing but loading: pickedUri, prediction,
\* confidence and gradcamBase64 keep their values.  So when the failed
\* request is the one of the displayed image and no other response was
\* committed since that pick, the result is still cleared and the image is
\* still the new one.
C17_FailureKeepsFields ==
    /\ [][IsFailedRequest(event') =>
            UNCHANGED <<pickedUri, prediction, confidence, gradcamBase64>>]_vars
    /\ []((IsFailedRequest(event) /\ pickedUri = event.id /\ shownBy = 0)
            => ResultsAbsent)

\* C17 witness: the second pick replaced the image, its request failed in
\* transport after the first invocation had ended, and the screen shows the
\* new image with no result.
C17_Witness ==
    /\ event.op = "resolved"
    /\ event.resp.kind = "reject"
    /\ event.id = 2
    /\ pickedUri = 2
    /\ pc[1] = "done"
    /\ nPosts = 2
    /\ ResultsAbsent

\* The three fields a 2xx response d stands for.
ParsedFields(d) ==
    [prediction |-> IF Nullish(d.prediction) THEN Null ELSE d.prediction,
     confidence |-> IF d.confidence.t = "num" THEN d.confidence ELSE Null,
     gradcamBase64 |->
        IF d.gradcam_png_base64.t = "str" /\ d.gradcam_png_base64.v # <<>>
        THEN d.gradcam_png_base64 ELSE Null]

\* C18: the displayed result is never a mix of two responses.  The three
\* fields start absent, and every step leaves all three as they are, or makes
\* all three absent, or writes all three from one 2xx response; so in every
\* reachable state they are all absent or the parsed fields of one response.
C18_NoMixedResult ==
    /\ ResultsAbsent
    /\ [][\/ UNCHANGED <<prediction, confidence, gradcamBase64>>
          \/ ResultsAbsent'
          \/ /\ IsSuccess(event')
             /\ [prediction |-> prediction', confidence |-> confidence',
                 gradcamBase64 |-> gradcamBase64']
                  = ParsedFields(event'.resp.body)]_vars

\* C18 witness: two requests overlapped and the response of the first was
\* committed last, over the image of the second; it carries a label and no
\* confidence, and none is displayed.
C18_Witness ==
    /\ IsSuccess(event)
    /\ event.id = 1
    /\ pickedUri = 2
    /\ pc[2] = "done"
    /\ nPosts = 2
    /\ prediction # Null
    /\ confidence = Null

\* C19: the view never returns to Idle: once pickedUri is set it stays
\* non-null, and every state with a displayed result or with loading true
\* has pickedUri non-null.
C19_NeverBackToIdle ==
    /\ [][pickedUri # 0 => pickedUri' # 0]_vars
    /\ []((ResultDisplayed \/ loading) => pickedUri # 0)

\* C19 witness: the only request made has failed and the picked image is
\* still displayed.
C19_Witness ==
    /\ IsFailedRequest(event)
    /\ nPosts = 1
    /\ pickedUri # 0
    /\ ~loading

====
